---- MODULE Spec2Model ----
(***************************************************************************)
(* Pixel Craft: the App component (source image, settings, transform, the  *)
(* debounced resample effect), the PixelPreview pointer handlers and the   *)
(* pixelateImage resampler.                                                *)
(*                                                                         *)
(* Numbers that are JavaScript doubles in the source (transform.x, .y,     *)
(* .scale, the crop rectangle) are exact rationals <<num, den>> here.      *)
(* State updates made in one callback are applied in one render (React     *)
(* batches them), so each handler is one action, and the effect that       *)
(* follows the render is part of the action.                               *)
(* A scheduled process and a running pixelateImage are identified by the   *)
(* values their closure captured; the running ones form a bag.             *)
(***************************************************************************)
EXTENDS Integers, FiniteSets, Sequences, Bags, TLC

(***************************************************************************)
(* Bounds of the model                                                     *)
(***************************************************************************)
\* number of user input events in one behaviour
MaxEvents == 4

(***************************************************************************)
(* Program constants                                                       *)
(***************************************************************************)
DEFAULT_GRID_SIZE == 16
MAX_GRID_SIZE == 64
MIN_GRID_SIZE == 8
\* the contrast / saturation sliders' min and max
MIN_ADJUST == -50
MAX_ADJUST == 50
\* the grid slider's step
GRID_STEP == 2

NULL == "null"

(***************************************************************************)
(* Inputs                                                                  *)
(***************************************************************************)
\* files the user can pick; "bad" is a file that does not decode as an image
Files == {"wide", "bad"}
\* what generatePixelArtImage can return (aspectRatio 1:1)
Generated == {"gen"}
\* every image of the model: "wide" is 40x20, "tall" 20x30, "gen" 32x32
Images == Files \cup Generated \cup {"tall"}
Decodable(img) == img \in {"wide", "tall", "gen"}
ImgWidth(img) == CASE img = "wide" -> 40 [] img = "tall" -> 20 [] OTHER -> 32
ImgHeight(img) == CASE img = "wide" -> 20 [] img = "tall" -> 30 [] OTHER -> 32

\* e.deltaY of a wheel event
WheelDeltas == {-100, 400, -4000}
\* e.movementX, e.movementY of a mouse move
MoveDeltas == {<<10, 0>>, <<-3, 4>>}
\* values a caller tries to give the sliders (the saturation slider is moved
\* over its range where pixelateImage is called directly)
GridRaw == {100}
ContrastRaw == {-80}
SaturationRaw == {20}

(***************************************************************************)
(* Exact rational arithmetic (for the doubles of the source)               *)
(***************************************************************************)
Abs(n) == IF n < 0 THEN -n ELSE n

RECURSIVE GCD(_, _)
GCD(a, b) == IF b = 0 THEN a ELSE GCD(b, a % b)

\* the normal form of n/d, d # 0
Rat(n, d) ==
    LET g == GCD(Abs(n), Abs(d))
        s == IF d < 0 THEN -1 ELSE 1
    IN  <<(s * n) \div g, (s * d) \div g>>

RInt(n) == <<n, 1>>
RAdd(a, b) == Rat(a[1] * b[2] + b[1] * a[2], a[2] * b[2])
RSub(a, b) == Rat(a[1] * b[2] - b[1] * a[2], a[2] * b[2])
RMul(a, b) == Rat(a[1] * b[1], a[2] * b[2])
RDiv(a, b) == Rat(a[1] * b[2], a[2] * b[1])
RLe(a, b) == a[1] * b[2] <= b[1] * a[2]
RLt(a, b) == a[1] * b[2] < b[1] * a[2]
RMax(a, b) == IF RLe(a, b) THEN b ELSE a
RMin(a, b) == IF RLe(a, b) THEN a ELSE b
RClamp(v, lo, hi) == RMax(lo, RMin(v, hi))
Min(a, b) == IF a <= b THEN a ELSE b
Max(a, b) == IF a <= b THEN b ELSE a

(***************************************************************************)
(* State                                                                   *)
(***************************************************************************)
VARIABLES
    originalImage,  \* App: the source image, or NULL
    pixelatedSrc,   \* App: the last buffer pixelateImage resolved with
    settings,       \* App: PixelSettings
    transform,      \* App: ImageTransform
    isDragging,     \* PixelPreview: drag state
    isProcessing,   \* App: a generation is running
    timers,         \* pending setTimeout(process, 16) closures
    inflight,       \* bag of pixelateImage promises not yet settled
    reading,        \* FileReader.readAsDataURL calls not yet loaded
    generating,     \* generatePixelArtImage calls not yet settled
    errors,         \* messages reported: console.error / alert
    nEvents,        \* user input events so far
    nChanges,       \* history: input events that changed a dependency of
                    \* the resample effect
    nPasses         \* history: calls of pixelateImage by process

vars == <<originalImage, pixelatedSrc, settings, transform, isDragging,
          isProcessing, timers, inflight, reading, generating, errors,
          nEvents, nChanges, nPasses>>

NoBuffer == [kind |-> "none"]
Identity == [x |-> RInt(0), y |-> RInt(0), scale |-> RInt(1)]

Init ==
    /\ originalImage = NULL
    /\ pixelatedSrc = NoBuffer
    /\ settings = [gridSize |-> DEFAULT_GRID_SIZE, opacity |-> 100,
                   showGrid |-> FALSE, contrast |-> 10, saturation |-> 20]
    /\ transform = Identity
    /\ isDragging = FALSE
    /\ isProcessing = FALSE
    \* the effect of the first render has scheduled process
    /\ timers = {[src |-> NULL, gridSize |-> DEFAULT_GRID_SIZE,
                  contrast |-> 10, saturation |-> 20, transform |-> Identity]}
    /\ inflight = EmptyBag
    /\ reading = {}
    /\ generating = 0
    /\ errors = 0
    /\ nEvents = 0
    /\ nChanges = 0
    /\ nPasses = 0

(***************************************************************************)
(* Pure functions                                                          *)
(***************************************************************************)
\* RangeInput without the clamp into [lo, hi]
RangeInputNoClamp(v, lo, hi, step) ==
    lo + ((v - lo + step \div 2) \div step) * step

\* <input type="range" min max step>: the value the control reports for an
\* attempted value v (clamped into [lo, hi], snapped to the step from lo)
RangeInput(v, lo, hi, step) ==
    LET c == Max(lo, Min(v, hi))
        k == (c - lo + step \div 2) \div step
        snapped == lo + k * step
    IN  IF snapped > hi THEN snapped - step ELSE snapped

\* ZoomUpdater without Math.max(0.1, ...)
ZoomUpdaterNoFloor(prev, deltaY) ==
    LET delta == RMul(RInt(-deltaY), Rat(1, 1000))
    IN  [prev EXCEPT !.scale =
            RMin(RAdd(prev.scale, RMul(RMul(delta, prev.scale), RInt(5))),
                 RInt(20))]

\* ZoomUpdater without the factor 5
ZoomUpdaterNoGain(prev, deltaY) ==
    LET delta == RMul(RInt(-deltaY), Rat(1, 1000))
    IN  [prev EXCEPT !.scale =
            RMax(Rat(1, 10),
                 RMin(RAdd(prev.scale, RMul(delta, prev.scale)), RInt(20)))]

\* handleWheel's updater: prev => ({...prev, scale: ...})
ZoomUpdater(prev, deltaY) ==
    LET zoomSensitivity == Rat(1, 1000)
        delta == RMul(RInt(-deltaY), zoomSensitivity)
    IN  [prev EXCEPT !.scale =
            RMax(Rat(1, 10),
                 RMin(RAdd(prev.scale, RMul(RMul(delta, prev.scale), RInt(5))),
                      RInt(20)))]

\* PanUpdater multiplying by the scale instead of dividing by it
PanUpdaterTimesScale(prev, movementX, movementY) ==
    [prev EXCEPT
        !.x = RAdd(prev.x, RMul(RMul(RInt(movementX), RInt(2)), prev.scale)),
        !.y = RAdd(prev.y, RMul(RMul(RInt(movementY), RInt(2)), prev.scale))]

\* PanUpdater without the division by the scale
PanUpdaterNoScale(prev, movementX, movementY) ==
    [prev EXCEPT
        !.x = RAdd(prev.x, RMul(RInt(movementX), RInt(2))),
        !.y = RAdd(prev.y, RMul(RInt(movementY), RInt(2)))]

\* handleMouseMove's updater: prev => ({...prev, x: ..., y: ...})
PanUpdater(prev, movementX, movementY) ==
    LET sensitivity == RInt(2)
    IN  [prev EXCEPT
            !.x = RAdd(prev.x, RDiv(RMul(RInt(movementX), sensitivity), prev.scale)),
            !.y = RAdd(prev.y, RDiv(RMul(RInt(movementY), sensitivity), prev.scale))]

\* Pixelate without canvas.width = canvas.height = gridSize: the canvas keeps
\* its default size
PixelateCanvasDefault(img, gridSize, contrast, saturation, t) ==
    LET size == RDiv(RInt(Min(ImgWidth(img), ImgHeight(img))), t.scale)
        cx == Rat(ImgWidth(img), 2)
        cy == Rat(ImgHeight(img), 2)
    IN  [kind |-> "png", img |-> img,
         width |-> 300, height |-> 150,
         contrastVal |-> 100 + contrast,
         saturateVal |-> 100 + saturation,
         size |-> size,
         sx |-> RSub(RSub(cx, RDiv(size, RInt(2))), t.x),
         sy |-> RSub(RSub(cy, RDiv(size, RInt(2))), t.y)]

\* Pixelate adding the offsets to the crop corner instead of subtracting them
PixelateAddsOffset(img, gridSize, contrast, saturation, t) ==
    LET size == RDiv(RInt(Min(ImgWidth(img), ImgHeight(img))), t.scale)
        cx == Rat(ImgWidth(img), 2)
        cy == Rat(ImgHeight(img), 2)
    IN  [kind |-> "png", img |-> img,
         width |-> gridSize, height |-> gridSize,
         contrastVal |-> 100 + contrast,
         saturateVal |-> 100 + saturation,
         size |-> size,
         sx |-> RAdd(RSub(cx, RDiv(size, RInt(2))), t.x),
         sy |-> RAdd(RSub(cy, RDiv(size, RInt(2))), t.y)]

\* Pixelate multiplying the viewport by the scale instead of dividing it
PixelateTimesScale(img, gridSize, contrast, saturation, t) ==
    LET size == RMul(RInt(Min(ImgWidth(img), ImgHeight(img))), t.scale)
        cx == Rat(ImgWidth(img), 2)
        cy == Rat(ImgHeight(img), 2)
    IN  [kind |-> "png", img |-> img,
         width |-> gridSize, height |-> gridSize,
         contrastVal |-> 100 + contrast,
         saturateVal |-> 100 + saturation,
         size |-> size,
         sx |-> RSub(RSub(cx, RDiv(size, RInt(2))), t.x),
         sy |-> RSub(RSub(cy, RDiv(size, RInt(2))), t.y)]

\* Pixelate with hidden state: the output carries the number of events seen
PixelateStamped(img, gridSize, contrast, saturation, t) ==
    LET size == RDiv(RInt(Min(ImgWidth(img), ImgHeight(img))), t.scale)
        cx == Rat(ImgWidth(img), 2)
        cy == Rat(ImgHeight(img), 2)
    IN  [kind |-> "png", img |-> img,
         width |-> gridSize, height |-> gridSize,
         contrastVal |-> 100 + contrast,
         saturateVal |-> 100 + saturation,
         size |-> size,
         sx |-> RSub(RSub(cx, RDiv(size, RInt(2))), t.x),
         sy |-> RSub(RSub(cy, RDiv(size, RInt(2))), t.y),
         stamp |-> nEvents]

\* Pixelate passing contrast and saturation as the percentages themselves
PixelateRawPercent(img, gridSize, contrast, saturation, t) ==
    LET size == RDiv(RInt(Min(ImgWidth(img), ImgHeight(img))), t.scale)
        cx == Rat(ImgWidth(img), 2)
        cy == Rat(ImgHeight(img), 2)
    IN  [kind |-> "png", img |-> img,
         width |-> gridSize, height |-> gridSize,
         contrastVal |-> contrast,
         saturateVal |-> saturation,
         size |-> size,
         sx |-> RSub(RSub(cx, RDiv(size, RInt(2))), t.x),
         sy |-> RSub(RSub(cy, RDiv(size, RInt(2))), t.y)]

\* what pixelateImage resolves with once the image has loaded: the PNG of the
\* gridSize x gridSize canvas, determined by the canvas size, the filter and
\* the source rectangle of drawImage
Pixelate(img, gridSize, contrast, saturation, t) ==
    LET size == RDiv(RInt(Min(ImgWidth(img), ImgHeight(img))), t.scale)
        cx == Rat(ImgWidth(img), 2)
        cy == Rat(ImgHeight(img), 2)
    IN  [kind |-> "png", img |-> img,
         width |-> gridSize, height |-> gridSize,
         contrastVal |-> 100 + contrast,
         saturateVal |-> 100 + saturation,
         size |-> size,
         sx |-> RSub(RSub(cx, RDiv(size, RInt(2))), t.x),
         sy |-> RSub(RSub(cy, RDiv(size, RInt(2))), t.y)]

\* colours <<r, g, b>> of source pixels, each channel in quarters of full
\* intensity
SamplePixels == {<<0, 0, 0>>, <<4, 2, 0>>, <<1, 3, 2>>, <<4, 4, 4>>}

\* the filter contrast(c%): v -> (c/100) * v + (1 - c/100) / 2, clamped to
\* [0, 1]; v is n/4 and the result a number of 400ths
ContrastFilter(n, c) == Max(0, Min(c * n + 2 * (100 - c), 400))

\* ctx.filter = `contrast(c%) saturate(s%)` applied to the pixel px by
\* drawImage: contrast on each channel, then the saturate colour matrix; the
\* result is a triple of rationals in [0, 1]
ApplyFilter(px, c, s) ==
    LET r == ContrastFilter(px[1], c)
        g == ContrastFilter(px[2], c)
        b == ContrastFilter(px[3], c)
        unit(n) == RClamp(Rat(n, 40000000), RInt(0), RInt(1))
    IN  <<unit((21300 + 787 * s) * r + (71500 - 715 * s) * g
                  + (7200 - 72 * s) * b),
          unit((21300 - 213 * s) * r + (71500 + 285 * s) * g
                  + (7200 - 72 * s) * b),
          unit((21300 - 213 * s) * r + (71500 - 715 * s) * g
                  + (7200 + 928 * s) * b)>>

\* the colour the buffer buf holds where drawImage sampled the colour px
BufferPixel(buf, px) == ApplyFilter(px, buf.contrastVal, buf.saturateVal)

\* the same with the colour step disabled (ctx.filter left at "none")
UnfilteredPixel(px) == <<Rat(px[1], 4), Rat(px[2], 4), Rat(px[3], 4)>>

(***************************************************************************)
(* The resample effect of App                                              *)
(***************************************************************************)
\* a clearTimeout that clears nothing
ClearTimeoutNone(ts, h) == ts

\* clearTimeout(h)
ClearTimeout(ts, h) == ts \ {h}

\* the closure process of one run of the effect: it reads the originalImage,
\* settings and transform of the render it was created in
Capture(img, s, t) ==
    [src |-> img, gridSize |-> s.gridSize,
     contrast |-> s.contrast, saturation |-> s.saturation, transform |-> t]

\* a dependency changed: the cleanup of the previous run (it clears the
\* timer of the render before), then setTimeout
RunEffect(img, s, t) ==
    timers' = ClearTimeout(timers, Capture(originalImage, settings, transform))
                \cup {Capture(img, s, t)}

\* the dependency list [originalImage, gridSize, contrast, saturation,
\* transform]: the first four are compared by value; every setTransform of the
\* program passes a new object, which always differs
EffectAfter(img, s, t, newTransformObject) ==
    IF \/ newTransformObject
       \/ img # originalImage
       \/ s.gridSize # settings.gridSize
       \/ s.contrast # settings.contrast
       \/ s.saturation # settings.saturation
    THEN RunEffect(img, s, t) /\ nChanges' = nChanges + 1
    ELSE UNCHANGED <<timers, nChanges>>

\* App renders PixelPreview when both are set, UploadZone otherwise
PreviewShown(img, buf) == img # NULL /\ buf # NoBuffer

\* a user input event
Event == nEvents < MaxEvents /\ nEvents' = nEvents + 1

\* a step of the environment (timer, load, promise)
Async == nEvents' = nEvents

\* container.clientWidth of the preview
ContainerWidths == {300, 800}

\* the side of the preview canvas: Math.min(container.clientWidth, 512)
CanvasSize(clientWidth) == Min(clientWidth, 512)

\* the x (or y) of line i of a grid loop: Math.floor(i * cellSize) with
\* cellSize = size / gridSize
GridLine(size, gridSize, i) == (i * size) \div gridSize

\* the lines of one grid loop: for (let i = 0; i <= gridSize; i++)
GridLines(size, gridSize) ==
    [k \in 1..(gridSize + 1) |-> GridLine(size, gridSize, k - 1)]

\* what the drawing effect of PixelPreview strokes over the buffer
Overlay(clientWidth, gridSize, showGrid) ==
    IF showGrid
    THEN [vertical |-> GridLines(CanvasSize(clientWidth), gridSize),
          horizontal |-> GridLines(CanvasSize(clientWidth), gridSize)]
    ELSE [vertical |-> <<>>, horizontal |-> <<>>]

(***************************************************************************)
(* PixelPreview handlers                                                   *)
(***************************************************************************)
handleWheel(deltaY) ==
    /\ PreviewShown(originalImage, pixelatedSrc)
    /\ Event
    /\ transform' = ZoomUpdater(transform, deltaY)
    /\ EffectAfter(originalImage, settings, transform', TRUE)
    /\ UNCHANGED <<originalImage, pixelatedSrc, settings, isDragging,
                   isProcessing, inflight, reading, generating, errors,
                   nPasses>>

handleMouseDown ==
    /\ PreviewShown(originalImage, pixelatedSrc)
    /\ Event
    /\ isDragging' = TRUE
    /\ UNCHANGED <<originalImage, pixelatedSrc, settings, transform,
                   isProcessing, timers, inflight, reading,
                   generating, errors,
                   nChanges, nPasses>>

handleMouseUp ==
    /\ PreviewShown(originalImage, pixelatedSrc)
    /\ Event
    /\ isDragging' = FALSE
    /\ UNCHANGED <<originalImage, pixelatedSrc, settings, transform,
                   isProcessing, timers, inflight, reading,
                   generating, errors,
                   nChanges, nPasses>>

handleMouseLeave ==
    /\ PreviewShown(originalImage, pixelatedSrc)
    /\ Event
    /\ isDragging' = FALSE
    /\ UNCHANGED <<originalImage, pixelatedSrc, settings, transform,
                   isProcessing, timers, inflight, reading,
                   generating, errors,
                   nChanges, nPasses>>

\* handleMouseMove without the isDragging guard
handleMouseMoveNoGuard(movementX, movementY) ==
    /\ PreviewShown(originalImage, pixelatedSrc)
    /\ Event
    /\ transform' = PanUpdater(transform, movementX, movementY)
    /\ EffectAfter(originalImage, settings, transform', TRUE)
    /\ UNCHANGED <<originalImage, pixelatedSrc, settings, isDragging,
                   isProcessing, inflight, reading, generating, errors,
                   nPasses>>

handleMouseMove(movementX, movementY) ==
    /\ PreviewShown(originalImage, pixelatedSrc)
    /\ Event
    /\ IF ~isDragging
       THEN UNCHANGED <<transform, timers, nChanges>>
       ELSE /\ transform' = PanUpdater(transform, movementX, movementY)
            /\ EffectAfter(originalImage, settings, transform', TRUE)
    /\ UNCHANGED <<originalImage, pixelatedSrc, settings, isDragging,
                   isProcessing, inflight, reading, generating, errors,
                   nPasses>>

\* the multipliers of the two download buttons: handleDownload(1),
\* handleDownload(32)
Multipliers == {1, 32}

\* the raster handleDownload hands to downloadImage: a canvas of
\* gridSize * scale pixels a side on which the buffer src is drawn with
\* imageSmoothingEnabled = false; cols and rows are the cells of what is
\* drawn; the file is named pixel-art-<gridSize>x<gridSize>.png
Export(src, gridSize, scale) ==
    LET finalSize == gridSize * scale
    IN  [width |-> finalSize, height |-> finalSize,
         cols |-> src.width, rows |-> src.height, name |-> gridSize]

\* the column (row) of the buffer that pixel i of a row (column) of the
\* raster r shows: nearest neighbour, sampled at the pixel centre
ExportCell(r, i) == ((2 * i + 1) * r.cols) \div (2 * r.width)

\* handleDownload changes no state of App or PixelPreview; its product is
\* Export(pixelatedSrc, settings.gridSize, scale)
handleDownload(scale) ==
    /\ PreviewShown(originalImage, pixelatedSrc)
    /\ Event
    /\ UNCHANGED <<originalImage, pixelatedSrc, settings, transform,
                   isDragging, isProcessing, timers, inflight, reading,
                   generating, errors, nChanges, nPasses>>

(***************************************************************************)
(* App handlers                                                            *)
(***************************************************************************)
\* resetTransform keeping the zoom
resetTransformKeepScale ==
    /\ Event
    /\ transform' = [Identity EXCEPT !.scale = transform.scale]
    /\ EffectAfter(originalImage, settings, transform', TRUE)
    /\ UNCHANGED <<originalImage, pixelatedSrc, settings, isDragging,
                   isProcessing, inflight, reading, generating, errors,
                   nPasses>>

resetTransform ==
    /\ Event
    /\ transform' = Identity
    /\ EffectAfter(originalImage, settings, transform', TRUE)
    /\ UNCHANGED <<originalImage, pixelatedSrc, settings, isDragging,
                   isProcessing, inflight, reading, generating, errors,
                   nPasses>>

\* the three sliders' onChange
setGridSize(raw) ==
    /\ Event
    /\ settings' = [settings EXCEPT
                      !.gridSize = RangeInput(raw, MIN_GRID_SIZE, MAX_GRID_SIZE, GRID_STEP)]
    /\ EffectAfter(originalImage, settings', transform, FALSE)
    /\ UNCHANGED <<originalImage, pixelatedSrc, transform, isDragging,
                   isProcessing, inflight, reading, generating, errors,
                   nPasses>>

setContrast(raw) ==
    /\ Event
    /\ settings' = [settings EXCEPT
                      !.contrast = RangeInput(raw, MIN_ADJUST, MAX_ADJUST, 1)]
    /\ EffectAfter(originalImage, settings', transform, FALSE)
    /\ UNCHANGED <<originalImage, pixelatedSrc, transform, isDragging,
                   isProcessing, inflight, reading, generating, errors,
                   nPasses>>

setSaturation(raw) ==
    /\ Event
    /\ settings' = [settings EXCEPT
                      !.saturation = RangeInput(raw, MIN_ADJUST, MAX_ADJUST, 1)]
    /\ EffectAfter(originalImage, settings', transform, FALSE)
    /\ UNCHANGED <<originalImage, pixelatedSrc, transform, isDragging,
                   isProcessing, inflight, reading, generating, errors,
                   nPasses>>

\* a showGrid toggle that re-runs the resample effect
toggleShowGridResamples ==
    /\ Event
    /\ settings' = [settings EXCEPT !.showGrid = ~settings.showGrid]
    /\ EffectAfter(originalImage, settings', transform, TRUE)
    /\ UNCHANGED <<originalImage, pixelatedSrc, transform, isDragging,
                   isProcessing, inflight, reading, generating, errors,
                   nPasses>>

toggleShowGrid ==
    /\ Event
    /\ settings' = [settings EXCEPT !.showGrid = ~settings.showGrid]
    /\ EffectAfter(originalImage, settings', transform, FALSE)
    /\ UNCHANGED <<originalImage, pixelatedSrc, transform, isDragging,
                   isProcessing, inflight, reading, generating, errors,
                   nPasses>>

\* the start-over button: setOriginalImage(null); PixelPreview unmounts and
\* its state is dropped
startOver ==
    /\ originalImage # NULL
    /\ Event
    /\ originalImage' = NULL
    /\ isDragging' = FALSE
    /\ EffectAfter(originalImage', settings, transform, FALSE)
    /\ UNCHANGED <<pixelatedSrc, settings, transform, isProcessing, inflight,
                   reading, generating, errors,
                   nPasses>>

\* UploadZone hands a file to handleImageSelected: reader.readAsDataURL(file)
handleImageSelected(file) ==
    /\ ~PreviewShown(originalImage, pixelatedSrc)
    /\ file \notin reading
    /\ Event
    /\ reading' = reading \cup {file}
    /\ UNCHANGED <<originalImage, pixelatedSrc, settings, transform,
                   isDragging, isProcessing, timers, inflight,
                   generating, errors,
                   nChanges, nPasses>>

\* reader.onload
readerOnload(file) ==
    /\ file \in reading
    /\ Async
    /\ reading' = reading \ {file}
    /\ originalImage' = file
    /\ transform' = Identity
    /\ EffectAfter(originalImage', settings, transform', TRUE)
    /\ UNCHANGED <<pixelatedSrc, settings, isDragging, isProcessing,
                   inflight, generating, errors,
                   nPasses>>

\* handleGenerate up to its await
handleGenerate(prompt) ==
    /\ Event
    /\ IF prompt = ""
       THEN UNCHANGED <<isProcessing, generating>>
       ELSE /\ isProcessing' = TRUE
            /\ generating' = generating + 1
    /\ UNCHANGED <<originalImage, pixelatedSrc, settings, transform,
                   isDragging, timers, inflight, reading, errors,
                   nChanges, nPasses>>

\* generateResolved without setTransform
generateResolvedKeepTransform(img) ==
    /\ generating > 0
    /\ Async
    /\ generating' = generating - 1
    /\ originalImage' = img
    /\ isProcessing' = FALSE
    /\ EffectAfter(originalImage', settings, transform, FALSE)
    /\ UNCHANGED <<pixelatedSrc, settings, transform, isDragging, inflight,
                   reading, errors,
                   nPasses>>

\* handleGenerate after the await: generatePixelArtImage resolved
generateResolved(img) ==
    /\ generating > 0
    /\ Async
    /\ generating' = generating - 1
    /\ originalImage' = img
    /\ transform' = Identity
    /\ isProcessing' = FALSE
    /\ EffectAfter(originalImage', settings, transform', TRUE)
    /\ UNCHANGED <<pixelatedSrc, settings, isDragging, inflight, reading,
                   errors,
                   nPasses>>

\* handleGenerate after the await: generatePixelArtImage threw; alert(...)
generateRejected ==
    /\ generating > 0
    /\ Async
    /\ generating' = generating - 1
    /\ errors' = errors + 1
    /\ isProcessing' = FALSE
    /\ UNCHANGED <<originalImage, pixelatedSrc, settings, transform,
                   isDragging, timers, inflight, reading,
                   nChanges, nPasses>>

(***************************************************************************)
(* The debounced process and pixelateImage                                 *)
(***************************************************************************)
\* process without the originalImage guard
processNoGuard(t) ==
    /\ t \in timers
    /\ Async
    /\ timers' = timers \ {t}
    /\ inflight' = inflight (+) SetToBag({t})
    /\ nPasses' = nPasses + 1
    /\ UNCHANGED <<originalImage, pixelatedSrc, settings, transform,
                   isDragging, isProcessing, reading, generating,
                   errors,
                   nChanges>>

\* a process that stays scheduled after it ran (a setInterval)
processKeepsTimer(t) ==
    /\ t \in timers
    /\ Async
    /\ IF t.src = NULL
       THEN UNCHANGED <<inflight, nPasses>>
       ELSE /\ inflight' = inflight (+) SetToBag({t})
            /\ nPasses' = nPasses + 1
    /\ UNCHANGED <<originalImage, pixelatedSrc, settings, transform,
                   isDragging, isProcessing, timers, reading, generating,
                   errors, nChanges>>

\* the timer fires: process() runs up to its await
process(t) ==
    /\ t \in timers
    /\ Async
    /\ timers' = timers \ {t}
    /\ IF t.src = NULL
       THEN UNCHANGED <<inflight, nPasses>>
       ELSE /\ inflight' = inflight (+) SetToBag({t})
            /\ nPasses' = nPasses + 1
    /\ UNCHANGED <<originalImage, pixelatedSrc, settings, transform,
                   isDragging, isProcessing, reading, generating,
                   errors,
                   nChanges>>

\* img.onload of pixelateImage, then the rest of process: with a 2d context
\* the promise resolves and setPixelatedSrc(result) runs; without one it
\* rejects and the catch logs
imageOnload(t, ctxOk) ==
    /\ BagIn(t, inflight)
    /\ Decodable(t.src)
    /\ Async
    /\ inflight' = inflight (-) SetToBag({t})
    /\ IF ctxOk
       THEN /\ pixelatedSrc' = Pixelate(t.src, t.gridSize, t.contrast,
                                        t.saturation, t.transform)
            /\ UNCHANGED errors
       ELSE /\ errors' = errors + 1
            /\ UNCHANGED pixelatedSrc
    /\ UNCHANGED <<originalImage, settings, transform, isDragging,
                   isProcessing, timers, reading, generating,
                   nChanges, nPasses>>

\* a catch that also clears the buffer
imageOnerrorClears(t) ==
    /\ BagIn(t, inflight)
    /\ ~Decodable(t.src)
    /\ Async
    /\ inflight' = inflight (-) SetToBag({t})
    /\ errors' = errors + 1
    /\ pixelatedSrc' = NoBuffer
    /\ UNCHANGED <<originalImage, settings, transform, isDragging,
                   isProcessing, timers, reading, generating,
                   nChanges, nPasses>>

\* a catch that schedules the failed process again
imageOnerrorRetries(t) ==
    /\ BagIn(t, inflight)
    /\ ~Decodable(t.src)
    /\ Async
    /\ inflight' = inflight (-) SetToBag({t})
    /\ errors' = errors + 1
    /\ timers' = timers \cup {t}
    /\ UNCHANGED <<originalImage, pixelatedSrc, settings, transform,
                   isDragging, isProcessing, reading, generating,
                   nChanges, nPasses>>

\* img.onerror of pixelateImage: the promise rejects and the catch logs
imageOnerror(t) ==
    /\ BagIn(t, inflight)
    /\ ~Decodable(t.src)
    /\ Async
    /\ inflight' = inflight (-) SetToBag({t})
    /\ errors' = errors + 1
    /\ UNCHANGED <<originalImage, pixelatedSrc, settings, transform,
                   isDragging, isProcessing, timers, reading,
                   generating,
                   nChanges, nPasses>>

Next ==
    \/ \E d \in WheelDeltas : handleWheel(d)
    \/ handleMouseDown
    \/ handleMouseUp
    \/ handleMouseLeave
    \/ \E m \in MoveDeltas : handleMouseMove(m[1], m[2])
    \/ \E m \in Multipliers : handleDownload(m)
    \/ resetTransform
    \/ \E v \in GridRaw : setGridSize(v)
    \/ \E v \in ContrastRaw : setContrast(v)
    \/ \E v \in SaturationRaw : setSaturation(v)
    \/ toggleShowGrid
    \/ startOver
    \/ \E f \in Files : handleImageSelected(f)
    \/ \E f \in Files : readerOnload(f)
    \/ \E p \in {"", "sword"} : handleGenerate(p)
    \/ \E g \in Generated : generateResolved(g)
    \/ generateRejected
    \/ \E t \in timers : process(t)
    \/ \E t \in BagToSet(inflight), ok \in BOOLEAN : imageOnload(t, ok)
    \/ \E t \in BagToSet(inflight) : imageOnerror(t)

Spec == Init /\ [][Next]_vars

\* what the browser's scheduling guarantees: a timer that stays scheduled
\* fires, an image that is loading gets its onload or its onerror, a
\* FileReader that is reading gets its onload, and the generating call's
\* promise settles.  No user event is ever required to happen.
Fairness ==
    /\ WF_vars(\E t \in timers : process(t))
    /\ WF_vars(\/ \E t \in BagToSet(inflight), ok \in BOOLEAN :
                     imageOnload(t, ok)
               \/ \E t \in BagToSet(inflight) : imageOnerror(t))
    /\ WF_vars(\E f \in Files : readerOnload(f))
    /\ WF_vars((\E g \in Generated : generateResolved(g))
                  \/ generateRejected)

SpecFair == Spec /\ Fairness

(***************************************************************************)
(* pixelateImage called directly                                           *)
(***************************************************************************)
\* arguments a caller of pixelateImage can pass
GridArgs == {4, 16, 100}
AdjustArgs == {-100, 0, 80}
SaturationArgs == {0, 80}
\* values a caller tries to give the sliders before the call
GridTries == {32, 100}
AdjustTries == {-80, 30}
SaturationTries == {70}
TransformArgs ==
    {Identity,
     [x |-> RInt(5), y |-> RInt(-3), scale |-> RInt(2)],
     [x |-> RInt(0), y |-> RInt(0), scale |-> Rat(1, 10)]}

InitResample ==
    /\ originalImage \in {"wide", "tall", "gen"}
    /\ pixelatedSrc = NoBuffer
    /\ settings \in [gridSize : GridArgs, opacity : {100}, showGrid : {FALSE},
                     contrast : AdjustArgs, saturation : SaturationArgs]
    /\ transform \in TransformArgs
    /\ isDragging = FALSE
    /\ isProcessing = FALSE
    /\ timers = {}
    /\ inflight = EmptyBag
    /\ reading = {}
    /\ generating = 0
    /\ errors = 0
    /\ nEvents = 0
    /\ nChanges = 0
    /\ nPasses = 0

\* await pixelateImage(originalImage, gridSize, contrast, saturation,
\* transform) on an image that loads, with a 2d context
callPixelate ==
    /\ Async
    /\ pixelatedSrc' = Pixelate(originalImage, settings.gridSize,
                                settings.contrast, settings.saturation,
                                transform)
    /\ UNCHANGED <<originalImage, settings, transform, isDragging,
                   isProcessing, timers, inflight, reading,
                   generating, errors,
                   nChanges, nPasses>>

NextResample ==
    \/ callPixelate
    \/ \E v \in GridTries : setGridSize(v)
    \/ \E v \in AdjustTries : setContrast(v)
    \/ \E v \in SaturationTries : setSaturation(v)

SpecResample == InitResample /\ [][NextResample]_vars

(***************************************************************************)
(* Properties                                                              *)
(***************************************************************************)
\* what a process scheduled now would capture
CurrentCapture == Capture(originalImage, settings, transform)

Running == BagToSet(inflight)

InScaleDomain(sc) ==
    RLe(Rat(1, 10), sc) /\ RLe(sc, RInt(20)) /\ RLt(RInt(0), sc)

\* C1: in every reachable state transform.scale lies in [0.1, 20] and is
\* > 0; so does the scale of every transform a scheduled or running resample
\* has captured.
C1_ScaleInDomain ==
    /\ InScaleDomain(transform.scale)
    /\ \A t \in timers \cup Running : InScaleDomain(t.transform.scale)

\* a wheel event took the scale below 0.1 and it was clamped to 0.1
C1_Witness ==
    /\ PreviewShown(originalImage, pixelatedSrc)
    /\ transform.scale = Rat(1, 10)

\* C2: a wheel event with delta d gives
\* scale' = clamp(scale + (-d * 0.001) * scale * 5, 0.1, 20) and leaves x and
\* y alone; from scale 1 with d = -100 the result is 1.5.
C2_ZoomStep ==
    [][\A d \in WheelDeltas :
         handleWheel(d) =>
            /\ transform'.scale =
                 RClamp(RAdd(transform.scale,
                             RMul(RMul(RMul(RInt(-d), Rat(1, 1000)),
                                       transform.scale), RInt(5))),
                        Rat(1, 10), RInt(20))
            /\ transform'.x = transform.x
            /\ transform'.y = transform.y
            /\ (transform.scale = RInt(1) /\ d = -100
                  => transform'.scale = Rat(3, 2))]_vars

\* one wheel event d = -100 at scale 1 has given 1.5
C2_Witness ==
    /\ nEvents = 2
    /\ transform.scale = Rat(3, 2)

\* C3: a mouse move by (dx, dy) while dragging gives x' = x + dx * 2 / scale,
\* y' = y + dy * 2 / scale and leaves the scale alone; from {0,0,1} the move
\* (10, 0) gives x' = 20, y' = 0.
C3_PanStep ==
    [][\A m \in MoveDeltas :
         (handleMouseMove(m[1], m[2]) /\ isDragging) =>
            /\ transform'.x =
                 RAdd(transform.x, RDiv(RInt(m[1] * 2), transform.scale))
            /\ transform'.y =
                 RAdd(transform.y, RDiv(RInt(m[2] * 2), transform.scale))
            /\ transform'.scale = transform.scale
            /\ (transform = Identity /\ m = <<10, 0>>
                  => transform'.x = RInt(20) /\ transform'.y = RInt(0))]_vars

\* press, then one move (10, 0) from {0,0,1}, has given {20,0,1}
C3_Witness ==
    /\ nEvents = 3
    /\ isDragging
    /\ transform = [x |-> RInt(20), y |-> RInt(0), scale |-> RInt(1)]

\* C4: a reset sets the transform to {0,0,1} whatever it was and leaves the
\* source image and the settings unchanged.
C4_ResetStep ==
    [][resetTransform =>
         /\ transform' = Identity
         /\ originalImage' = originalImage
         /\ settings' = settings]_vars

\* upload, wheel, reset: the reset came on a zoomed transform (the resample
\* of the zoomed state is still running)
C4_Witness ==
    /\ nEvents = 3
    /\ originalImage = "wide"
    /\ transform = Identity
    /\ \E t \in Running : t.src = "wide" /\ t.transform.scale # RInt(1)

\* C5: the step that installs a source image (reader.onload, the end of
\* handleGenerate, any change of originalImage to an image) leaves the
\* transform at {0,0,1} in the very state that has the new source.
C5_NewSourceResetsTransform ==
    [][(\/ \E f \in Files : readerOnload(f)
        \/ \E g \in Generated : generateResolved(g)
        \/ (originalImage' # originalImage /\ originalImage' # NULL))
         => transform' = Identity]_vars

\* upload, wheel, generate: the generated image arrived while the transform
\* was zoomed (the resample of the zoomed old source is still running)
C5_Witness ==
    /\ nEvents = 3
    /\ originalImage = "gen"
    /\ transform = Identity
    /\ \E t \in Running : t.src = "wide" /\ t.transform.scale # RInt(1)

\* C6: a resample started for a state that a newer input has since replaced
\* (what it captured is no longer the current source, settings and
\* transform) does not change pixelatedSrc when it completes.
C6_StaleResultDiscarded ==
    [][\A t \in Running :
         (imageOnload(t, TRUE) /\ t # CurrentCapture)
            => pixelatedSrc' = pixelatedSrc]_vars

\* C7: at most one process is scheduled, and it has captured the current
\* source, settings and transform: every change before the timer fires
\* replaces the scheduled process, so the one that starts the resampler is
\* the one of the last change.
C7_DebounceCoalesces ==
    /\ Cardinality(timers) <= 1
    /\ \A t \in timers : t = CurrentCapture

\* upload, wheel, wheel: the process scheduled by the first wheel event never
\* ran (no resample of scale 1.5 is running, has resolved or has failed) and
\* one process, of the state after the second, is scheduled
C7_Witness ==
    /\ nEvents = 3
    /\ transform.scale = Rat(9, 4)
    /\ Cardinality(timers) = 1
    /\ inflight = EmptyBag
    /\ errors = 0
    /\ pixelatedSrc.kind = "png"
    /\ pixelatedSrc.size = RInt(20)

\* C8: a resample that fails (img.onerror, no 2d context, a draw that
\* throws) leaves pixelatedSrc, the transform and the settings as they were.
C8_FailedResampleKeepsState ==
    [][(\E t \in Running : imageOnload(t, FALSE) \/ imageOnerror(t))
         => /\ pixelatedSrc' = pixelatedSrc
            /\ transform' = transform
            /\ settings' = settings]_vars

\* two uploads: the resample of the undecodable file has failed and the
\* buffer of the good one is still there
C8_Witness ==
    /\ nEvents = 2
    /\ originalImage = "bad"
    /\ timers = {}
    /\ inflight = EmptyBag
    /\ errors = 1
    /\ pixelatedSrc.kind = "png"

\* C9 as stated: process running with no source image reports an error.
C9_EmptyInputReported ==
    [][\A t \in timers :
         (process(t) /\ t.src = NULL) => errors' = errors + 1]_vars

\* C9 amended: process running with no source image is a silent no-op: no
\* resample starts, nothing is reported, and the buffer, the transform and
\* the settings stay as they were.
C9_EmptyInputIsNoOp ==
    [][\A t \in timers :
         (process(t) /\ t.src = NULL) =>
            /\ errors' = errors
            /\ inflight' = inflight
            /\ pixelatedSrc' = pixelatedSrc
            /\ transform' = transform
            /\ settings' = settings]_vars

\* after start-over the timer has fired with no source while a buffer exists
C9_Witness ==
    /\ originalImage = NULL
    /\ pixelatedSrc.kind = "png"
    /\ timers = {}
    /\ inflight = EmptyBag
    /\ errors = 0

Sources == {img \in Images : Decodable(img)}

\* C11: for every gridSize in [8,64] a successful pixelateImage returns a
\* buffer of exactly gridSize x gridSize pixels, whatever the dimensions of
\* the source and whatever the transform.
C11_BufferIsGridSquare ==
    [][(callPixelate /\ settings.gridSize \in MIN_GRID_SIZE..MAX_GRID_SIZE) =>
          /\ pixelatedSrc'.kind = "png"
          /\ pixelatedSrc'.width = settings.gridSize
          /\ pixelatedSrc'.height = settings.gridSize
          /\ \A img \in Sources, t \in TransformArgs :
                LET b == Pixelate(img, settings.gridSize, settings.contrast,
                                  settings.saturation, t)
                IN  b.width = settings.gridSize /\ b.height = settings.gridSize]_vars

\* the 20 x 30 source, zoomed to scale 2 and panned, gave a 64 x 64 buffer
C11_Witness ==
    /\ pixelatedSrc.kind = "png"
    /\ pixelatedSrc.img = "tall"
    /\ pixelatedSrc.width = 64
    /\ pixelatedSrc.height = 64
    /\ transform.scale = RInt(2)


\* amounts by which transform.x is increased
CropShifts == {1, 7}

\* C12: the crop of a width x height source under {x, y, scale} is the square
\* of side s = min(width, height) / scale with top-left
\* (width/2 - s/2 - x, height/2 - s/2 - y); at {0,0,1} s = min(width, height),
\* sx = (width - s)/2 and sy = (height - s)/2; increasing x by d moves the
\* crop left by exactly d and changes nothing else of it.
C12_CropRectangle ==
    [][callPixelate =>
         LET w == RInt(ImgWidth(originalImage))
             h == RInt(ImgHeight(originalImage))
             m == RInt(Min(ImgWidth(originalImage), ImgHeight(originalImage)))
             s == RDiv(m, transform.scale)
             two == RInt(2)
         IN  /\ pixelatedSrc'.size = s
             /\ pixelatedSrc'.sx = RSub(RSub(RDiv(w, two), RDiv(s, two)), transform.x)
             /\ pixelatedSrc'.sy = RSub(RSub(RDiv(h, two), RDiv(s, two)), transform.y)
             /\ (transform = Identity =>
                   /\ pixelatedSrc'.size = m
                   /\ pixelatedSrc'.sx = RDiv(RSub(w, m), two)
                   /\ pixelatedSrc'.sy = RDiv(RSub(h, m), two))
             /\ \A d \in CropShifts :
                   LET b == Pixelate(originalImage, settings.gridSize,
                                     settings.contrast, settings.saturation,
                                     [transform EXCEPT !.x = RAdd(@, RInt(d))])
                   IN  /\ b.sx = RSub(pixelatedSrc'.sx, RInt(d))
                       /\ b.sy = pixelatedSrc'.sy
                       /\ b.size = pixelatedSrc'.size]_vars

\* the 40 x 20 source under {5, -3, 2}: the crop is the 10 x 10 square at
\* (10, 8)
C12_Witness ==
    /\ pixelatedSrc.kind = "png"
    /\ pixelatedSrc.img = "wide"
    /\ pixelatedSrc.size = RInt(10)
    /\ pixelatedSrc.sx = RInt(10)
    /\ pixelatedSrc.sy = RInt(8)


\* scales handleWheel reaches, in increasing order
ScaleArgs == <<Rat(1, 10), Rat(1, 2), RInt(1), Rat(3, 2), Rat(9, 4), RInt(20)>>

\* the crop side pixelateImage would use for the current source at scale sc
CropSide(sc) ==
    Pixelate(originalImage, settings.gridSize, settings.contrast,
             settings.saturation, [transform EXCEPT !.scale = sc]).size

InputsOf(buf) ==
    LET w == RInt(ImgWidth(buf.img))
        h == RInt(ImgHeight(buf.img))
        m == RInt(Min(ImgWidth(buf.img), ImgHeight(buf.img)))
        half == RDiv(buf.size, RInt(2))
    IN  [src |-> buf.img, gridSize |-> buf.width,
         contrast |-> buf.contrastVal - 100,
         saturation |-> buf.saturateVal - 100,
         transform |-> [x |-> RSub(RSub(RDiv(w, RInt(2)), half), buf.sx),
                        y |-> RSub(RSub(RDiv(h, RInt(2)), half), buf.sy),
                        scale |-> RDiv(m, buf.size)]]

C19_NeutralAdjustIsIdentity ==
    [][callPixelate =>
         /\ pixelatedSrc'.contrastVal = 100 + settings.contrast
         /\ pixelatedSrc'.saturateVal = 100 + settings.saturation
         /\ \A px \in SamplePixels :
               BufferPixel(pixelatedSrc', px) =
                  ApplyFilter(px, 100 + settings.contrast,
                              100 + settings.saturation)
         /\ (settings.contrast = 0 /\ settings.saturation = 0) =>
               /\ pixelatedSrc'.contrastVal = 100
               /\ pixelatedSrc'.saturateVal = 100
               /\ \A px \in SamplePixels :
                     BufferPixel(pixelatedSrc', px) = UnfilteredPixel(px)]_vars

\* a call with contrast 0 and saturation 0 has returned
C19_Witness ==
    /\ pixelatedSrc.kind = "png"
    /\ settings.contrast = 0
    /\ settings.saturation = 0
    /\ pixelatedSrc.contrastVal = 100
    /\ pixelatedSrc.saturateVal = 100


\* C18: toggling showGrid changes neither pixelatedSrc nor the transform nor
\* any other setting, schedules no process and starts no resample; when the
\* grid is on, the overlay is gridSize + 1 vertical and gridSize + 1
\* horizontal lines, from 0 to the canvas side.
C18_GridToggleIsCosmetic ==
    [][toggleShowGrid =>
         /\ settings' = [settings EXCEPT !.showGrid = ~settings.showGrid]
         /\ pixelatedSrc' = pixelatedSrc
         /\ transform' = transform
         /\ originalImage' = originalImage
         /\ timers' = timers
         /\ inflight' = inflight
         /\ \A cw \in ContainerWidths :
               LET g == settings'.gridSize
                   n == IF settings'.showGrid THEN g + 1 ELSE 0
               IN  /\ Len(Overlay(cw, g, settings'.showGrid).vertical) = n
                   /\ Len(Overlay(cw, g, settings'.showGrid).horizontal) = n
                   /\ settings'.showGrid =>
                        /\ GridLine(CanvasSize(cw), g, 0) = 0
                        /\ GridLine(CanvasSize(cw), g, g) = CanvasSize(cw)
                        /\ \A i \in 0..(g - 1) :
                              GridLine(CanvasSize(cw), g, i)
                                 < GridLine(CanvasSize(cw), g, i + 1)]_vars

\* upload, resample, grid slider to 64, resample, grid on: the toggle came
\* with nothing scheduled or running, and nothing is scheduled after it
C18_Witness ==
    /\ nEvents = 3
    /\ settings.showGrid
    /\ settings.gridSize = 64
    /\ pixelatedSrc.kind = "png"
    /\ pixelatedSrc.width = 64
    /\ originalImage = "wide"
    /\ timers = {}
    /\ inflight = EmptyBag

\* C20: the drag state is Idle or Dragging: a press gives Dragging, a release
\* or a pointer-leave gives Idle, a move in Idle changes nothing of the
\* transform (and schedules nothing), a move changes the transform only in
\* Dragging, and neither a wheel event nor a reset changes the drag state.
\* (Each implication "step => effect" is written "effect \/ ~step".)
C20_DragStateMachine ==
    [][/\ isDragging \in BOOLEAN
       /\ isDragging' \/ ~handleMouseDown
       /\ ~isDragging' \/ ~(handleMouseUp \/ handleMouseLeave)
       /\ \/ /\ isDragging' = isDragging
             /\ ~isDragging => (transform' = transform /\ timers' = timers)
             /\ transform' # transform => isDragging
          \/ ~(\E m \in MoveDeltas : handleMouseMove(m[1], m[2]))
       /\ \/ isDragging' = isDragging
          \/ ~((\E d \in WheelDeltas : handleWheel(d)) \/ resetTransform)]_vars

\* upload, press, move (10, 0), release: back in Idle with the pan applied
C20_Witness ==
    /\ nEvents = 4
    /\ ~isDragging
    /\ originalImage = "wide"
    /\ transform = [x |-> RInt(20), y |-> RInt(0), scale |-> RInt(1)]


\* C15: whenever handleDownload runs with multiplier m at the current
\* gridSize g, the raster is (g*m) x (g*m), the buffer drawn has exactly
\* g x g cells, and every m x m block of the raster is one cell of the
\* buffer (pixel i of a row shows column i div m), also right after a
\* change of gridSize.
C15_ExportBlocksMatchGrid ==
    [][\A m \in Multipliers :
         handleDownload(m) =>
            LET g == settings.gridSize
                r == Export(pixelatedSrc, g, m)
            IN  /\ r.width = g * m
                /\ r.height = g * m
                /\ r.cols = g
                /\ r.rows = g
                /\ \A i \in 0..(r.width - 1) : ExportCell(r, i) = i \div m]_vars

\* pending processes that will call pixelateImage
Pending == {t \in timers : t.src # NULL}

C17_NoPassAfterFailureBeforeInput ==
    [][\A t \in Running :
         (imageOnload(t, FALSE) \/ imageOnerror(t))
            => \A p \in timers' : p.src = NULL]_vars

\* C17 amended: a failed resample is never retried: the failing step
\* schedules no process and starts no pass; a pass is only ever started by a
\* scheduled process, and a process is only ever scheduled by an input that
\* changed a dependency of the effect (which may have come before the
\* failure).
C17_FailureSchedulesNothing ==
    [][/\ \A t \in Running :
            (imageOnload(t, FALSE) \/ imageOnerror(t)) =>
               /\ timers' = timers
               /\ nPasses' = nPasses
               /\ inflight' = inflight (-) SetToBag({t})
       /\ nPasses' # nPasses =>
            /\ nPasses' = nPasses + 1
            /\ \E t \in Pending : process(t)
       /\ (\E p \in timers' : p \notin timers) => nChanges' = nChanges + 1]_vars

\* the upload of a file that does not decode: its one pass has failed,
\* nothing is scheduled or running and no second pass was started
C17_Witness ==
    /\ originalImage = "bad"
    /\ pixelatedSrc = NoBuffer
    /\ errors = 1
    /\ nChanges = 1
    /\ nPasses = 1
    /\ timers = {}
    /\ inflight = EmptyBag

\* how far the crop window of pixelateImage moves, as a fraction of its side,
\* when the transform goes from t to u: <<horizontal, vertical>>
CropShift(img, t, u) ==
    LET before == Pixelate(img, DEFAULT_GRID_SIZE, 0, 0, t)
        after == Pixelate(img, DEFAULT_GRID_SIZE, 0, 0, u)
    IN  <<RDiv(RSub(before.sx, after.sx), before.size),
          RDiv(RSub(before.sy, after.sy), before.size)>>

\* C22: a mouse move by (dx, dy) while dragging moves the crop window of the
\* resample by 2*dx / min(width, height) of its side horizontally and by
\* 2*dy / min(width, height) vertically (against the drag, so that the
\* picture follows the pointer), at the scale the drag happens at and at
\* every other scale of [0.1, 20] it could have happened at.
C22_PanSpeedIndependentOfZoom ==
    [][\A m \in MoveDeltas :
         (isDragging /\ handleMouseMove(m[1], m[2])) =>
            LET side == Min(ImgWidth(originalImage), ImgHeight(originalImage))
                speed == <<Rat(2 * m[1], side), Rat(2 * m[2], side)>>
            IN  /\ CropShift(originalImage, transform, transform') = speed
                /\ \A k \in 1..Len(ScaleArgs) :
                      LET t == [transform EXCEPT !.scale = ScaleArgs[k]]
                      IN  CropShift(originalImage, t,
                                    PanUpdater(t, m[1], m[2])) = speed]_vars

\* upload of the 40 x 20 image, wheel to scale 20, press, move (10, 0): the
\* pan was 1 source pixel and the buffer on screen was resampled after it
\* (crop side 1, left edge 20 - 1/2 - 1)
C22_Witness ==
    /\ isDragging
    /\ transform = [x |-> RInt(1), y |-> RInt(0), scale |-> RInt(20)]
    /\ pixelatedSrc # NoBuffer
    /\ pixelatedSrc.size = RInt(1)
    /\ pixelatedSrc.sx = Rat(37, 2)

\* C23: whenever the preview is shown (a source image and a buffer are
\* present) the buffer was resampled from the current source image.
C23_ShownBufferIsOfCurrentSource ==
    PreviewShown(originalImage, pixelatedSrc)
        => pixelatedSrc.img = originalImage

\* the buffer is the resample of the current source, transform, gridSize,
\* contrast and saturation
BufferIsLatest ==
    pixelatedSrc = Pixelate(originalImage, settings.gridSize,
                            settings.contrast, settings.saturation,
                            transform)

\* C21: once the inputs have stopped changing, if a source image is present
\* and no resample has failed, the buffer eventually equals the resample of
\* the latest source, transform, gridSize, contrast and saturation and stays
\* equal to it, whatever order the resamples in flight complete in.
C21_EventuallyLatest ==
    <>[]((originalImage # NULL /\ errors = 0) => BufferIsLatest)
====
